---- MODULE Spec2Model ----
(***************************************************************************)
(* ET / MPH / HP drag-strip calculator (src/main.py).                      *)
(*                                                                         *)
(* The module has three layers.                                            *)
(*                                                                         *)
(*  1. Numbers.  A Python float is modelled by the real number it stands   *)
(*     for, kept exactly as  sgn * (rn/rd) * cbrt(sn/sd)  with unbounded   *)
(*     naturals rn, rd, sn, sd.  That form is closed under everything the  *)
(*     program does with numbers: product, quotient, cube, and cube root   *)
(*     of a rational; so                                                   *)
(*     no operation is approximated.  The rounding error of IEEE doubles   *)
(*     (about 1e-16 relative) is the one thing left out; where it can      *)
(*     decide an outcome, namely a value formatted exactly half way        *)
(*     between two decimals, both outcomes are kept.                       *)
(*     A Python exception is a value of its own that every operation       *)
(*     passes on.                                                          *)
(*  2. The conversion library, main.py lines 6-49.                         *)
(*  3. The form: the text fields, the selector, the three click handlers.  *)
(***************************************************************************)
EXTENDS Integers, Sequences, FiniteSets, TLC

VARIABLES distance_dd, weight_tf, et_tf, mph_tf, hp_tf, result_text,
          snack_bar, clicks, last, lib

vars == <<distance_dd, weight_tf, et_tf, mph_tf, hp_tf, result_text,
          snack_bar, clicks, last, lib>>

(***************************************************************************)
(* Unbounded naturals: little-endian sequences of limbs, no leading zero   *)
(* limb, <<>> is 0.  They carry the exact numerators and denominators.     *)
(***************************************************************************)
Base == 100 * 100

RECURSIVE BigOfInt(_)
BigOfInt(n) == IF n = 0 THEN <<>> ELSE <<n % Base>> \o BigOfInt(n \div Base)

One == BigOfInt(1)

RECURSIVE MulSmall(_, _, _)
MulSmall(a, k, c) ==
    IF a = <<>> THEN BigOfInt(c)
    ELSE LET t == Head(a) * k + c
         IN  <<t % Base>> \o MulSmall(Tail(a), k, t \div Base)

RECURSIVE BigAdd(_, _, _)
BigAdd(a, b, c) ==
    IF a = <<>> THEN (IF c = 0 THEN b ELSE BigAdd(<<c>>, b, 0))
    ELSE IF b = <<>> THEN (IF c = 0 THEN a ELSE BigAdd(a, <<c>>, 0))
    ELSE LET t == Head(a) + Head(b) + c
         IN  <<t % Base>> \o BigAdd(Tail(a), Tail(b), t \div Base)

\* a * b, one row of the long multiplication per limb of b
RECURSIVE MulRows(_, _)
MulRows(a, b) ==
    IF b = <<>> THEN <<>>
    ELSE LET rest == MulRows(a, Tail(b))
         IN  BigAdd(IF Head(b) = 0 THEN <<>> ELSE MulSmall(a, Head(b), 0),
                    IF rest = <<>> THEN <<>> ELSE <<0>> \o rest, 0)

BigMul(a, b) ==
    IF a = <<>> \/ b = <<>> THEN <<>>
    ELSE IF Len(a) < Len(b) THEN MulRows(b, a) ELSE MulRows(a, b)

RECURSIVE CmpFrom(_, _, _)
CmpFrom(a, b, i) ==
    IF i = 0 THEN 0
    ELSE IF a[i] < b[i] THEN -1
    ELSE IF a[i] > b[i] THEN 1
    ELSE CmpFrom(a, b, i - 1)

BigCmp(a, b) ==
    IF Len(a) < Len(b) THEN -1
    ELSE IF Len(a) > Len(b) THEN 1
    ELSE CmpFrom(a, b, Len(a))

BigSquare(a) == BigMul(a, a)

BigCube(a) == BigMul(a, BigMul(a, a))

RECURSIVE Pow10(_)
Pow10(k) == IF k = 0 THEN One ELSE MulSmall(Pow10(k - 1), 10, 0)

(***************************************************************************)
(* Python numbers.                                                         *)
(*   t = "float"    the real  sgn * (rn/rd) * cbrt(sn/sd)                  *)
(*   t = "complex"  (rn/rd) * cbrt(sn/sd) * (cos(pi/3) + i sin(pi/3)),     *)
(*                  the principal cube root Python 3 returns for           *)
(*                  negative ** (1/3)                                      *)
(*   t = "ZeroDivisionError"   the operation raised                        *)
(***************************************************************************)
Number(t, sgn, rn, rd, sn, sd) ==
    [t |-> t, sgn |-> sgn, rn |-> rn, rd |-> rd, sn |-> sn, sd |-> sd]

Zero == Number("float", 0, <<>>, One, One, One)

ZeroDivisionError == Number("ZeroDivisionError", 0, <<>>, One, One, One)

IsRaise(a) == a.t = "ZeroDivisionError"

IsRational(a) == a.t = "float" /\ a.sn = One /\ a.sd = One

\* a decimal literal of the source, n / 10^k
Literal(n, k) == Number("float", 1, BigOfInt(n), Pow10(k), One, One)

\* a / b on floats: Python raises on a zero divisor
FloatDiv(a, b) ==
    IF IsRaise(a) THEN a
    ELSE IF IsRaise(b) THEN b
    ELSE IF b.sgn = 0 THEN ZeroDivisionError
    ELSE IF a.sgn = 0 THEN Zero
    ELSE Number(a.t, a.sgn * b.sgn, BigMul(a.rn, b.rd), BigMul(a.rd, b.rn),
                BigMul(a.sn, b.sd), BigMul(a.sd, b.sn))

\* a * b; one operand may be a complex cube root, the other is then a
\* positive float (the program's constants are)
FloatMul(a, b) ==
    IF IsRaise(a) THEN a
    ELSE IF IsRaise(b) THEN b
    ELSE IF a.sgn = 0 \/ b.sgn = 0 THEN Zero
    ELSE Number(IF a.t = "complex" \/ b.t = "complex" THEN "complex" ELSE "float",
                a.sgn * b.sgn, BigMul(a.rn, b.rn), BigMul(a.rd, b.rd),
                BigMul(a.sn, b.sn), BigMul(a.sd, b.sd))

\* a ** 3
Pow3(a) ==
    IF IsRaise(a) THEN a
    ELSE IF a.sgn = 0 THEN Zero
    ELSE Number("float", a.sgn, BigMul(BigCube(a.rn), a.sn),
                BigMul(BigCube(a.rd), a.sd), One, One)

\* a ** (1 / 3) of a rational a: the real cube root of a positive a, 0.0 of
\* 0.0, and the principal complex cube root of a negative a
PowThird(a) ==
    IF IsRaise(a) THEN a
    ELSE IF a.sgn = 0 THEN Zero
    ELSE Number(IF a.sgn < 0 THEN "complex" ELSE "float", 1, One, One, a.rn, a.rd)

\* equality of the numbers two values stand for
SameNumber(a, b) ==
    /\ a.t = b.t
    /\ a.sgn = b.sgn
    /\ \/ a.sgn = 0
       \/ IsRaise(a)
       \/ BigMul(BigMul(BigCube(a.rn), a.sn), BigMul(BigCube(b.rd), b.sd))
            = BigMul(BigMul(BigCube(b.rn), b.sn), BigMul(BigCube(a.rd), a.sd))

(***************************************************************************)
(* The conversion library, main.py lines 6-49.                             *)
(***************************************************************************)
hp_from_et_weight(et, weight) ==
    FloatDiv(weight, Pow3(FloatDiv(et, Literal(5825, 3))))

\* faulty variant: the quotient taken the wrong way round
et_from_hp_weight_swapped(hp, weight) ==
    FloatMul(Literal(5825, 3), PowThird(FloatDiv(hp, weight)))

et_from_hp_weight(hp, weight) ==
    FloatMul(Literal(5825, 3), PowThird(FloatDiv(weight, hp)))

hp_from_mph_weight(mph, weight) ==
    FloatMul(weight, Pow3(FloatDiv(mph, Literal(234, 0))))

mph_from_hp_weight(hp, weight) ==
    FloatMul(Literal(234, 0), PowThird(FloatDiv(hp, weight)))

hp_to_kw(hp) == FloatMul(hp, Literal(7457, 4))

kw_to_hp(kw) == FloatDiv(kw, Literal(7457, 4))

ET_1_8_FROM_1_4_FACTOR == Literal(66, 2)

MPH_1_8_FROM_1_4_FACTOR == Literal(79, 2)

et_1_8_from_1_4(et_qtr) == FloatMul(et_qtr, ET_1_8_FROM_1_4_FACTOR)

\* faulty variant: the factor applied in the same direction both ways
et_1_4_from_1_8_times(et_eighth) == FloatMul(et_eighth, ET_1_8_FROM_1_4_FACTOR)

et_1_4_from_1_8(et_eighth) == FloatDiv(et_eighth, ET_1_8_FROM_1_4_FACTOR)

mph_1_8_from_1_4(mph_qtr) == FloatMul(mph_qtr, MPH_1_8_FROM_1_4_FACTOR)

\* faulty variant: the ET factor used for MPH
mph_1_4_from_1_8_et_factor(mph_eighth) == FloatDiv(mph_eighth, ET_1_8_FROM_1_4_FACTOR)

mph_1_4_from_1_8(mph_eighth) == FloatDiv(mph_eighth, MPH_1_8_FROM_1_4_FACTOR)

(***************************************************************************)
(* Text of a field.  A text is one of                                      *)
(*   kind = "empty"    the empty string (a field nothing was typed in)     *)
(*   kind = "text"     text float() rejects, such as "abc"                 *)
(*   kind = "decimal"  a decimal literal: sign, digits m, k of them after  *)
(*                     the point, e.g. "-12.50" is (neg, 1250, 2)          *)
(*   kind = "complex"  what format() writes for a complex number,          *)
(*                     "<m>+<im>j" with k decimals in both parts;          *)
(*                     float() rejects it                                  *)
(***************************************************************************)
Text(kind, neg, m, k, im) == [kind |-> kind, neg |-> neg, m |-> m, k |-> k, im |-> im]

EmptyText == Text("empty", FALSE, 0, 0, 0)

JunkText == Text("text", FALSE, 0, 0, 0)

Decimal(neg, m, k) == Text("decimal", neg, m, k, 0)

\* float(s) for a decimal literal s
float(s) ==
    IF s.m = 0 THEN Zero
    ELSE Number("float", IF s.neg THEN -1 ELSE 1, BigOfInt(s.m), Pow10(s.k), One, One)

(***************************************************************************)
(* f"{x:.kf}".  With X = |x| * 10^k the digits are the integer nearest to  *)
(* X.  X^p = R / D for naturals R, D (p = 3 for a real, p = 6 for the      *)
(* imaginary part of a complex cube root), so n - 1/2 <= X is decided      *)
(* exactly as (2n - 1)^p * D <= 2^p * R.                                   *)
(***************************************************************************)
BigPower(b, p) == IF p = 3 THEN BigCube(b) ELSE BigCube(BigSquare(b))

\* n - 1/2 <= X, where X^p = R2 / D and R2 already holds the factor 2^p
AtMost(n, p, D, R2) ==
    n = 0 \/ BigCmp(BigMul(BigPower(BigOfInt(2 * n - 1), p), D), R2) <= 0

RECURSIVE Grow(_, _, _, _)
Grow(n, p, D, R2) == IF AtMost(n, p, D, R2) THEN Grow(2 * n, p, D, R2) ELSE n

RECURSIVE Bisect(_, _, _, _, _)
Bisect(lo, hi, p, D, R2) ==
    IF hi - lo <= 1 THEN lo
    ELSE LET mid == (lo + hi) \div 2
         IN  IF AtMost(mid, p, D, R2) THEN Bisect(mid, hi, p, D, R2)
                                      ELSE Bisect(lo, mid, p, D, R2)

\* The integers X rounds to: the nearest one, and both neighbours when X is
\* exactly half way (the double that stands for X then lies on either side).
Nearest(p, D, R2) ==
    LET top == Grow(1, p, D, R2)
        n   == Bisect(top \div 2, top, p, D, R2)
    IN  IF BigMul(BigPower(BigOfInt(2 * n + 1), p), D) = R2 THEN {n, n + 1} ELSE {n}

\* X^3 = R / D for X = |x| * 10^k
CubeNum(x, k) == BigMul(Pow10(3 * k), BigMul(BigCube(x.rn), x.sn))

CubeDen(x) == BigMul(BigCube(x.rd), x.sd)

\* the set of texts f"{x:.kf}" can be
FormatFixed(x, k) ==
    IF x.sgn = 0 THEN {Decimal(FALSE, 0, k)}
    ELSE IF x.t = "float"
    THEN {Decimal(x.sgn < 0, n, k) :
            n \in Nearest(3, CubeDen(x), MulSmall(CubeNum(x, k), 8, 0))}
    ELSE \* re = X * cos(pi/3) = X / 2,  im = X * sin(pi/3) = X * sqrt(3) / 2
         {Text("complex", FALSE, re, k, im) :
            re \in Nearest(3, CubeDen(x), CubeNum(x, k)),
            im \in Nearest(6, BigSquare(CubeDen(x)),
                           MulSmall(BigSquare(CubeNum(x, k)), 27, 0))}


(***************************************************************************)
(* The form, main.py lines 54-253.                                         *)
(***************************************************************************)
MaxClicks == 2

QuarterMile == "1/4 mile"

EighthMile == "1/8 mile"

\* what the user types into the four fields before pressing a button
WeightTexts ==
    {EmptyText, JunkText, Decimal(FALSE, 0, 0), Decimal(FALSE, 3200, 0)}

EtTexts ==
    {EmptyText, JunkText, Decimal(FALSE, 0, 0), Decimal(TRUE, 12, 0),
     Decimal(FALSE, 7689, 3), Decimal(FALSE, 120004, 4)}

MphTexts == {EmptyText, JunkText, Decimal(FALSE, 117, 0)}

HpTexts == {EmptyText, JunkText, Decimal(FALSE, 400, 0)}

\* ft.Text(""): the heading line and the six numbers the text shows
ResultText(heading, hp, kw, et_qtr, mph_qtr, et_1_8, mph_1_8) ==
    [heading |-> heading, hp |-> hp, kw |-> kw, et_qtr |-> et_qtr,
     mph_qtr |-> mph_qtr, et_1_8 |-> et_1_8, mph_1_8 |-> mph_1_8]

NoResult ==
    ResultText("", EmptyText, EmptyText, EmptyText, EmptyText, EmptyText, EmptyText)

\* one invocation of a conversion function
Call(fn, args) == [fn |-> fn, args |-> args]

\* what the last click did: the handler, how it ended ("result", a caught
\* "ValueError", an escaped "ZeroDivisionError"), the selector and the
\* numbers it read, the library calls it made, the locals it computed
Click(handler, outcome, quarter, weight, input, calls, c) ==
    [handler |-> handler, outcome |-> outcome, quarter |-> quarter,
     weight |-> weight, input |-> input, calls |-> calls,
     hp |-> c.hp, kw |-> c.kw, et_qtr |-> c.et_qtr, mph_qtr |-> c.mph_qtr,
     et_1_8 |-> c.et_1_8, mph_1_8 |-> c.mph_1_8]

NoLocals ==
    [hp |-> Zero, kw |-> Zero, et_qtr |-> Zero, mph_qtr |-> Zero,
     et_1_8 |-> Zero, mph_1_8 |-> Zero, calls |-> <<>>]

NoClick == Click("", "", TRUE, Zero, Zero, <<>>, NoLocals)

\* the library called directly: its arguments and the calls made with them
NoLib == [x |-> Zero, y |-> Zero, calls |-> <<>>]

Init ==
    /\ distance_dd = QuarterMile
    /\ weight_tf = EmptyText
    /\ et_tf = EmptyText
    /\ mph_tf = EmptyText
    /\ hp_tf = EmptyText
    /\ result_text = NoResult
    /\ snack_bar = [open |-> FALSE, msg |-> <<>>]
    /\ clicks = 0
    /\ last = NoClick
    /\ lib = NoLib

\* page.snack_bar = ft.SnackBar(content=ft.Text(msg)); open = True
show_error(msg) == snack_bar' = [open |-> TRUE, msg |-> msg]

\* faulty variant: an empty field read as 0.0
parse_float_lenient(field, name) ==
    IF field.kind = "empty"
    THEN [raised |-> FALSE, msg |-> <<>>, value |-> Zero]
    ELSE IF field.kind = "decimal"
    THEN [raised |-> FALSE, msg |-> <<>>, value |-> float(field)]
    ELSE [raised |-> TRUE, msg |-> <<name, "must be a number.">>, value |-> Zero]

\* float(field.value), or the ValueError raised instead
parse_float(field, name) ==
    IF field.kind = "empty"
    THEN [raised |-> TRUE, msg |-> <<name, "is required.">>, value |-> Zero]
    ELSE IF field.kind = "decimal"
    THEN [raised |-> FALSE, msg |-> <<>>, value |-> float(field)]
    ELSE [raised |-> TRUE, msg |-> <<name, "must be a number.">>, value |-> Zero]

\* faulty variant: the option's text misspelt
using_quarter_mile_typo == distance_dd = "1/4 Mile"

using_quarter_mile == distance_dd = QuarterMile

\* the statements after the first raising one are not executed
Then(x, calls) == IF IsRaise(x) THEN <<>> ELSE calls

\* lines 120-133: the locals of on_from_et_click and the calls that made them
from_et_locals(weight, et_input, quarter) ==
    LET et_qtr  == IF quarter THEN et_input ELSE et_1_4_from_1_8(et_input)
        hp      == hp_from_et_weight(et_qtr, weight)
        mph_qtr == mph_from_hp_weight(hp, weight)
    IN  [et_qtr |-> et_qtr, hp |-> hp, mph_qtr |-> mph_qtr, kw |-> hp_to_kw(hp),
         et_1_8 |-> et_1_8_from_1_4(et_qtr), mph_1_8 |-> mph_1_8_from_1_4(mph_qtr),
         calls |->
            (IF quarter THEN <<>> ELSE <<Call("et_1_4_from_1_8", <<et_input>>)>>)
            \o <<Call("hp_from_et_weight", <<et_qtr, weight>>)>>
            \o Then(hp, <<Call("mph_from_hp_weight", <<hp, weight>>)>>
                 \o Then(mph_qtr, <<Call("hp_to_kw", <<hp>>),
                                    Call("et_1_8_from_1_4", <<et_qtr>>),
                                    Call("mph_1_8_from_1_4", <<mph_qtr>>)>>))]

\* lines 162-175
from_mph_locals(weight, mph_input, quarter) ==
    LET mph_qtr == IF quarter THEN mph_input ELSE mph_1_4_from_1_8(mph_input)
        hp      == hp_from_mph_weight(mph_qtr, weight)
        et_qtr  == et_from_hp_weight(hp, weight)
    IN  [et_qtr |-> et_qtr, hp |-> hp, mph_qtr |-> mph_qtr, kw |-> hp_to_kw(hp),
         et_1_8 |-> et_1_8_from_1_4(et_qtr), mph_1_8 |-> mph_1_8_from_1_4(mph_qtr),
         calls |->
            (IF quarter THEN <<>> ELSE <<Call("mph_1_4_from_1_8", <<mph_input>>)>>)
            \o <<Call("hp_from_mph_weight", <<mph_qtr, weight>>)>>
            \o Then(hp, <<Call("et_from_hp_weight", <<hp, weight>>)>>
                 \o Then(et_qtr, <<Call("hp_to_kw", <<hp>>),
                                   Call("et_1_8_from_1_4", <<et_qtr>>),
                                   Call("mph_1_8_from_1_4", <<mph_qtr>>)>>))]

\* faulty variant: the arguments of et_from_hp_weight in the wrong order
from_hp_locals_swapped(weight, hp) ==
    LET et_qtr  == et_from_hp_weight(weight, hp)
        mph_qtr == IF IsRaise(et_qtr) THEN et_qtr ELSE mph_from_hp_weight(hp, weight)
    IN  [et_qtr |-> et_qtr, hp |-> hp, mph_qtr |-> mph_qtr, kw |-> hp_to_kw(hp),
         et_1_8 |-> et_1_8_from_1_4(et_qtr), mph_1_8 |-> mph_1_8_from_1_4(mph_qtr),
         calls |-> <<Call("et_from_hp_weight", <<weight, hp>>),
                     Call("mph_from_hp_weight", <<hp, weight>>),
                     Call("hp_to_kw", <<hp>>),
                     Call("et_1_8_from_1_4", <<et_qtr>>),
                     Call("mph_1_8_from_1_4", <<mph_qtr>>)>>]

\* lines 204-211
from_hp_locals(weight, hp) ==
    LET et_qtr  == et_from_hp_weight(hp, weight)
        mph_qtr == IF IsRaise(et_qtr) THEN et_qtr ELSE mph_from_hp_weight(hp, weight)
    IN  [et_qtr |-> et_qtr, hp |-> hp, mph_qtr |-> mph_qtr, kw |-> hp_to_kw(hp),
         et_1_8 |-> et_1_8_from_1_4(et_qtr), mph_1_8 |-> mph_1_8_from_1_4(mph_qtr),
         calls |->
            <<Call("et_from_hp_weight", <<hp, weight>>)>>
            \o Then(et_qtr, <<Call("mph_from_hp_weight", <<hp, weight>>)>>
                 \o Then(mph_qtr, <<Call("hp_to_kw", <<hp>>),
                                    Call("et_1_8_from_1_4", <<et_qtr>>),
                                    Call("mph_1_8_from_1_4", <<mph_qtr>>)>>))]

\* an exception left the try block's computations
Raised(c) == IsRaise(c.hp) \/ IsRaise(c.et_qtr) \/ IsRaise(c.mph_qtr)

\* the six formatted numbers of a click: each float is formatted the same
\* way wherever it is shown
Shown(c) ==
    {ResultText("", hp, kw, et_qtr, mph_qtr, et_1_8, mph_1_8) :
        hp \in FormatFixed(c.hp, 1), kw \in FormatFixed(c.kw, 1),
        et_qtr \in FormatFixed(c.et_qtr, 3), mph_qtr \in FormatFixed(c.mph_qtr, 1),
        et_1_8 \in FormatFixed(c.et_1_8, 3), mph_1_8 \in FormatFixed(c.mph_1_8, 1)}

\* faulty variant: the handler's own fields cleared when the input is rejected
Rejected_clearing(handler, msg) ==
    /\ show_error(msg)
    /\ last' = Click(handler, "ValueError", using_quarter_mile, Zero, Zero, <<>>, NoLocals)
    /\ et_tf' = EmptyText /\ mph_tf' = EmptyText /\ hp_tf' = EmptyText
    /\ UNCHANGED result_text

\* except ValueError as ex: show_error(str(ex))
Rejected(handler, msg) ==
    /\ show_error(msg)
    /\ last' = Click(handler, "ValueError", using_quarter_mile, Zero, Zero, <<>>, NoLocals)
    /\ UNCHANGED <<et_tf, mph_tf, hp_tf, result_text>>

\* an exception that is no ValueError leaves the handler: nothing is written
Escaped(handler, weight, input, c) ==
    /\ last' = Click(handler, "ZeroDivisionError", using_quarter_mile, weight, input,
                     c.calls, NoLocals)
    /\ UNCHANGED <<et_tf, mph_tf, hp_tf, result_text, snack_bar>>

on_from_et_click ==
    /\ clicks < MaxClicks
    /\ clicks' = clicks + 1
    /\ UNCHANGED <<distance_dd, weight_tf, lib>>
    /\ LET weight   == parse_float(weight_tf, "Weight")
           et_input == parse_float(et_tf, "ET")
           c        == from_et_locals(weight.value, et_input.value, using_quarter_mile)
       IN  IF weight.raised THEN Rejected("et", weight.msg)
           ELSE IF et_input.raised THEN Rejected("et", et_input.msg)
           ELSE IF Raised(c) THEN Escaped("et", weight.value, et_input.value, c)
           ELSE \E s \in Shown(c) :
                  /\ et_tf' = IF using_quarter_mile THEN s.et_qtr ELSE s.et_1_8
                  /\ mph_tf' = IF using_quarter_mile THEN s.mph_qtr ELSE s.mph_1_8
                  /\ hp_tf' = s.hp
                  /\ result_text' = [s EXCEPT !.heading = "From ET:"]
                  /\ last' = Click("et", "result", using_quarter_mile, weight.value,
                                   et_input.value, c.calls, c)
                  /\ UNCHANGED snack_bar

on_from_mph_click ==
    /\ clicks < MaxClicks
    /\ clicks' = clicks + 1
    /\ UNCHANGED <<distance_dd, weight_tf, lib>>
    /\ LET weight    == parse_float(weight_tf, "Weight")
           mph_input == parse_float(mph_tf, "MPH")
           c         == from_mph_locals(weight.value, mph_input.value, using_quarter_mile)
       IN  IF weight.raised THEN Rejected("mph", weight.msg)
           ELSE IF mph_input.raised THEN Rejected("mph", mph_input.msg)
           ELSE IF Raised(c) THEN Escaped("mph", weight.value, mph_input.value, c)
           ELSE \E s \in Shown(c) :
                  /\ mph_tf' = IF using_quarter_mile THEN s.mph_qtr ELSE s.mph_1_8
                  /\ et_tf' = IF using_quarter_mile THEN s.et_qtr ELSE s.et_1_8
                  /\ hp_tf' = s.hp
                  /\ result_text' = [s EXCEPT !.heading = "From MPH:"]
                  /\ last' = Click("mph", "result", using_quarter_mile, weight.value,
                                   mph_input.value, c.calls, c)
                  /\ UNCHANGED snack_bar

on_from_hp_click ==
    /\ clicks < MaxClicks
    /\ clicks' = clicks + 1
    /\ UNCHANGED <<distance_dd, weight_tf, lib>>
    /\ LET weight == parse_float(weight_tf, "Weight")
           hp     == parse_float(hp_tf, "HP")
           c      == from_hp_locals(weight.value, hp.value)
       IN  IF weight.raised THEN Rejected("hp", weight.msg)
           ELSE IF hp.raised THEN Rejected("hp", hp.msg)
           ELSE IF Raised(c) THEN Escaped("hp", weight.value, hp.value, c)
           ELSE \E s \in Shown(c) :
                  /\ et_tf' = IF using_quarter_mile THEN s.et_qtr ELSE s.et_1_8
                  /\ mph_tf' = IF using_quarter_mile THEN s.mph_qtr ELSE s.mph_1_8
                  /\ result_text' = [s EXCEPT !.heading = "From HP:"]
                  /\ last' = Click("hp", "result", using_quarter_mile, weight.value,
                                   hp.value, c.calls, c)
                  /\ UNCHANGED <<hp_tf, snack_bar>>

(***************************************************************************)
(* The user.  The form is filled in before the first button is pressed;    *)
(* the distance can be selected at any time.                               *)
(***************************************************************************)
type_weight ==
    /\ clicks = 0
    /\ \E s \in WeightTexts : weight_tf' = s
    /\ UNCHANGED <<distance_dd, et_tf, mph_tf, hp_tf, result_text, snack_bar,
                   clicks, last, lib>>

type_et ==
    /\ clicks = 0
    /\ \E s \in EtTexts : et_tf' = s
    /\ UNCHANGED <<distance_dd, weight_tf, mph_tf, hp_tf, result_text, snack_bar,
                   clicks, last, lib>>

type_mph ==
    /\ clicks = 0
    /\ \E s \in MphTexts : mph_tf' = s
    /\ UNCHANGED <<distance_dd, weight_tf, et_tf, hp_tf, result_text, snack_bar,
                   clicks, last, lib>>

type_hp ==
    /\ clicks = 0
    /\ \E s \in HpTexts : hp_tf' = s
    /\ UNCHANGED <<distance_dd, weight_tf, et_tf, mph_tf, result_text, snack_bar,
                   clicks, last, lib>>

select_distance ==
    /\ \E d \in {QuarterMile, EighthMile} : distance_dd' = d
    /\ UNCHANGED <<weight_tf, et_tf, mph_tf, hp_tf, result_text, snack_bar,
                   clicks, last, lib>>

Next ==
    \/ type_weight
    \/ type_et
    \/ type_mph
    \/ type_hp
    \/ select_distance
    \/ on_from_et_click
    \/ on_from_mph_click
    \/ on_from_hp_click

Spec == Init /\ [][Next]_vars


(***************************************************************************)
(* The library called directly, as a test suite does: x is the first       *)
(* argument (an ET, an HP, an MPH or a kW figure), y the weight, and each  *)
(* call is recorded with what it returned or raised.                       *)
(***************************************************************************)
MaxLibX == 4

MaxLibW == 3

MaxLibCalls == 2

\* n / 10^k for an integer n
FloatOfInt(n, k) == float(Decimal(n < 0, IF n < 0 THEN -n ELSE n, k))

LibXs == {FloatOfInt(325 * i, 2) : i \in -1 .. MaxLibX}

LibWs == {FloatOfInt(800 * j, 0) : j \in 0 .. MaxLibW}

LibInit ==
    /\ distance_dd = QuarterMile
    /\ weight_tf = EmptyText
    /\ et_tf = EmptyText
    /\ mph_tf = EmptyText
    /\ hp_tf = EmptyText
    /\ result_text = NoResult
    /\ snack_bar = [open |-> FALSE, msg |-> <<>>]
    /\ clicks = 0
    /\ last = NoClick
    /\ \E x \in LibXs, y \in LibWs : lib = [x |-> x, y |-> y, calls |-> <<>>]

Returned(fn, out) ==
    /\ Len(lib.calls) < MaxLibCalls
    /\ lib' = [lib EXCEPT !.calls = Append(@, [fn |-> fn, out |-> out])]
    /\ UNCHANGED <<distance_dd, weight_tf, et_tf, mph_tf, hp_tf, result_text,
                   snack_bar, clicks, last>>

call_hp_from_et_weight == Returned("hp_from_et_weight", hp_from_et_weight(lib.x, lib.y))

call_et_from_hp_weight == Returned("et_from_hp_weight", et_from_hp_weight(lib.x, lib.y))

call_hp_from_mph_weight == Returned("hp_from_mph_weight", hp_from_mph_weight(lib.x, lib.y))

call_mph_from_hp_weight == Returned("mph_from_hp_weight", mph_from_hp_weight(lib.x, lib.y))

call_hp_to_kw == Returned("hp_to_kw", hp_to_kw(lib.x))

call_kw_to_hp == Returned("kw_to_hp", kw_to_hp(lib.x))

call_et_1_8_from_1_4 == Returned("et_1_8_from_1_4", et_1_8_from_1_4(lib.x))

call_et_1_4_from_1_8 == Returned("et_1_4_from_1_8", et_1_4_from_1_8(lib.x))

call_mph_1_8_from_1_4 == Returned("mph_1_8_from_1_4", mph_1_8_from_1_4(lib.x))

call_mph_1_4_from_1_8 == Returned("mph_1_4_from_1_8", mph_1_4_from_1_8(lib.x))

\* hp_from_et_weight(et_from_hp_weight(x, y), y)
call_hp_from_et_of_hp ==
    Returned("hp_from_et_weight(et_from_hp_weight)",
             hp_from_et_weight(et_from_hp_weight(lib.x, lib.y), lib.y))

\* et_1_4_from_1_8(et_1_8_from_1_4(x))
call_et_1_4_of_1_8 ==
    Returned("et_1_4_from_1_8(et_1_8_from_1_4)", et_1_4_from_1_8(et_1_8_from_1_4(lib.x)))

\* mph_1_4_from_1_8(mph_1_8_from_1_4(x))
call_mph_1_4_of_1_8 ==
    Returned("mph_1_4_from_1_8(mph_1_8_from_1_4)",
             mph_1_4_from_1_8(mph_1_8_from_1_4(lib.x)))

LibNext ==
    \/ call_hp_from_et_weight
    \/ call_et_from_hp_weight
    \/ call_hp_from_mph_weight
    \/ call_mph_from_hp_weight
    \/ call_hp_to_kw
    \/ call_kw_to_hp
    \/ call_et_1_8_from_1_4
    \/ call_et_1_4_from_1_8
    \/ call_mph_1_8_from_1_4
    \/ call_mph_1_4_from_1_8
    \/ call_hp_from_et_of_hp
    \/ call_et_1_4_of_1_8
    \/ call_mph_1_4_of_1_8

LibSpec == LibInit /\ [][LibNext]_vars

\* the calls of fn recorded so far
CallsOf(fn) == {i \in 1 .. Len(lib.calls) : lib.calls[i].fn = fn}

\* |a - b| <= 1e-9 * |b| for rationals a, b of one sign
WithinRelTol(a, b) ==
    /\ a.t = "float" /\ b.t = "float" /\ a.sgn = b.sgn
    /\ \/ a.sgn = 0
       \/ /\ IsRational(a) /\ IsRational(b)
          /\ LET ab == BigMul(a.rn, b.rd)     \* a/b = ab / ba
                 ba == BigMul(b.rn, a.rd)
                 e9 == 1000000000
             IN  /\ BigCmp(BigMul(BigOfInt(e9 - 1), ba), BigMul(BigOfInt(e9), ab)) <= 0
                 /\ BigCmp(BigMul(BigOfInt(e9), ab), BigMul(BigOfInt(e9 + 1), ba)) <= 0

\* C3 (as claimed): no conversion function ends in an error; with a zero et,
\* hp or weight, hp_from_et_weight, et_from_hp_weight and mph_from_hp_weight
\* return a non-finite value.  Python floats divide by zero with an
\* exception, so no call ever returns one.
C3_NeverRaises ==
    \A i \in 1 .. Len(lib.calls) :
        /\ ~IsRaise(lib.calls[i].out)
        /\ (/\ lib.calls[i].fn \in {"hp_from_et_weight", "et_from_hp_weight",
                                    "mph_from_hp_weight"}
            /\ (lib.x.sgn = 0 \/ lib.y.sgn = 0))
           => lib.calls[i].out.t \in {"inf", "nan"}

\* C6: for positive h = lib.x and w = lib.y,
\* hp_from_et_weight(et_from_hp_weight(h, w), w) is within 1e-9 of h, relative.
C6_HpRoundTrip ==
    \A i \in CallsOf("hp_from_et_weight(et_from_hp_weight)") :
        (lib.x.sgn > 0 /\ lib.y.sgn > 0) => WithinRelTol(lib.calls[i].out, lib.x)

C6_Witness ==
    /\ lib.x.sgn > 0 /\ lib.y.sgn > 0
    /\ \E i \in CallsOf("hp_from_et_weight(et_from_hp_weight)") :
          WithinRelTol(lib.calls[i].out, lib.x)

\* C7: for positive x = lib.x, et_1_4_from_1_8(et_1_8_from_1_4(x)) and
\* mph_1_4_from_1_8(mph_1_8_from_1_4(x)) are x again.
C7_EighthRoundTrip ==
    lib.x.sgn > 0 =>
        /\ \A i \in CallsOf("et_1_4_from_1_8(et_1_8_from_1_4)") :
              SameNumber(lib.calls[i].out, lib.x)
        /\ \A i \in CallsOf("mph_1_4_from_1_8(mph_1_8_from_1_4)") :
              SameNumber(lib.calls[i].out, lib.x)

C7_Witness ==
    /\ lib.x.sgn > 0
    /\ \E i \in CallsOf("et_1_4_from_1_8(et_1_8_from_1_4)") :
          SameNumber(lib.calls[i].out, lib.x)
    /\ \E i \in CallsOf("mph_1_4_from_1_8(mph_1_8_from_1_4)") :
          SameNumber(lib.calls[i].out, lib.x)


(***************************************************************************)
(* The claims about the form.                                              *)
(***************************************************************************)
\* float() rejects the text
Unparseable(s) == s.kind # "decimal"

\* the ValueError message for a rejected field
Complaint(s, name) ==
    <<name, IF s.kind = "empty" THEN "is required." ELSE "must be a number.">>

\* the step is a click of the button whose handler is h
Clicked(h) == clicks' = clicks + 1 /\ last'.handler = h

\* the button's own field and its name in messages
OwnField(h) ==
    CASE h = "et"  -> <<et_tf, "ET">>
      [] h = "mph" -> <<mph_tf, "MPH">>
      [] h = "hp"  -> <<hp_tf, "HP">>

\* C1: a click with an empty or unparseable weight or own field shows the
\* notification naming the first such field ("is required." when empty,
\* "must be a number." otherwise), calls no conversion function and leaves
\* the ET, MPH and HP fields and the result text as they were.
C1_BadInputRejected ==
    [][\A h \in {"et", "mph", "hp"} :
         (Clicked(h) /\ (Unparseable(weight_tf) \/ Unparseable(OwnField(h)[1])))
         => /\ snack_bar'.open
            /\ snack_bar'.msg = IF Unparseable(weight_tf)
                                THEN Complaint(weight_tf, "Weight")
                                ELSE Complaint(OwnField(h)[1], OwnField(h)[2])
            /\ last'.calls = <<>>
            /\ UNCHANGED <<et_tf, mph_tf, hp_tf, result_text>>]_vars

\* a second click rejected for an unparseable MPH field, the first click's
\* result still on the form
C1_Witness ==
    /\ clicks = 2
    /\ last.handler = "mph" /\ last.outcome = "ValueError" /\ last.calls = <<>>
    /\ snack_bar = [open |-> TRUE, msg |-> <<"MPH", "must be a number.">>]
    /\ result_text.heading = "From ET:"
    /\ hp_tf = result_text.hp

\* C2 (as claimed): a conversion function is called only with a weight and an
\* input value that are positive floats.
C2_OnlyPositiveReachLibrary ==
    last.calls # <<>> => (last.weight.sgn > 0 /\ last.input.sgn > 0)

\* C4 (as claimed): every click ends with a full result written, or with a
\* validation notification shown before any conversion function was called.
C4_ResultOrRejection ==
    clicks > 0 =>
        \/ last.outcome = "result"
        \/ last.outcome = "ValueError" /\ last.calls = <<>> /\ snack_bar.open

\* C5: Compute from ET with positive e and w: et_qtr is e (1/4 mile) or
\* e / 0.66 (1/8 mile), hp * (et_qtr / 5.825)^3 = w, mph_qtr^3 * w = 234^3 * hp,
\* kw = hp * 0.7457, et_1_8 = et_qtr * 0.66, mph_1_8 = mph_qtr * 0.79, and the
\* locals for (e, 1/8 mile, w) are those for (e / 0.66, 1/4 mile, w).
C5_Formulas(c) ==
    /\ SameNumber(IF c.quarter THEN c.et_qtr ELSE FloatMul(c.et_qtr, Literal(66, 2)),
                  c.input)
    /\ SameNumber(FloatMul(c.hp, Pow3(FloatDiv(c.et_qtr, Literal(5825, 3)))), c.weight)
    /\ SameNumber(FloatMul(Pow3(c.mph_qtr), c.weight),
                  FloatMul(Pow3(Literal(234, 0)), c.hp))
    /\ SameNumber(FloatDiv(c.kw, c.hp), Literal(7457, 4))
    /\ SameNumber(FloatDiv(c.et_1_8, c.et_qtr), Literal(66, 2))
    /\ SameNumber(FloatDiv(c.mph_1_8, c.mph_qtr), Literal(79, 2))

C5_SameAsQuarter(c) ==
    LET q == from_et_locals(c.weight, FloatDiv(c.input, Literal(66, 2)), TRUE)
    IN  /\ SameNumber(c.hp, q.hp) /\ SameNumber(c.kw, q.kw)
        /\ SameNumber(c.et_qtr, q.et_qtr) /\ SameNumber(c.mph_qtr, q.mph_qtr)
        /\ SameNumber(c.et_1_8, q.et_1_8) /\ SameNumber(c.mph_1_8, q.mph_1_8)

C5_ComputeFromEt ==
    (/\ last.handler = "et" /\ last.outcome = "result"
     /\ last.weight.sgn > 0 /\ last.input.sgn > 0)
    => /\ C5_Formulas(last)
       /\ ~last.quarter => C5_SameAsQuarter(last)

C5_Witness ==
    /\ last.handler = "et" /\ last.outcome = "result" /\ ~last.quarter
    /\ last.weight.sgn > 0 /\ last.input.sgn > 0
    /\ result_text.heading = "From ET:"
    /\ C5_SameAsQuarter(last)

\* the value a successful click shows for the selected distance
ForDistance(quarter_value, factor) ==
    IF distance_dd = EighthMile THEN FloatMul(quarter_value, factor) ELSE quarter_value

\* C8: a successful click leaves in the ET and MPH fields the values for the
\* distance selected when the button was pressed (et_qtr * 0.66 and
\* mph_qtr * 0.79 for 1/8 mile, et_qtr and mph_qtr otherwise), formatted; and
\* after Compute from ET (from MPH) the ET (MPH) field shows the number the
\* user typed there, at the field's three (one) decimals.
C8_FieldsForSelectedDistance ==
    [][(clicks' = clicks + 1 /\ last'.outcome = "result")
       => /\ et_tf' \in FormatFixed(ForDistance(last'.et_qtr, Literal(66, 2)), 3)
          /\ mph_tf' \in FormatFixed(ForDistance(last'.mph_qtr, Literal(79, 2)), 1)
          /\ last'.handler = "et" => et_tf' \in FormatFixed(float(et_tf), 3)
          /\ last'.handler = "mph" => mph_tf' \in FormatFixed(float(mph_tf), 1)]_vars

\* Compute from ET at 1/8 mile with 12.0004 typed: the field shows 12.000
C8_Witness ==
    /\ last.handler = "et" /\ last.outcome = "result" /\ ~last.quarter
    /\ SameNumber(last.input, FloatOfInt(120004, 4))
    /\ et_tf = Decimal(FALSE, 12000, 3)

\* Compute from HP follows a successful Compute from ET of positive inputs,
\* the selector standing where it stood at the first click
HpAfterEt ==
    /\ last.handler = "et" /\ last.outcome = "result"
    /\ last.weight.sgn > 0 /\ last.input.sgn > 0
    /\ last.quarter = using_quarter_mile
    /\ Clicked("hp") /\ last'.outcome = "result"

\* C9 (as claimed): Compute from HP right after a successful Compute from ET
\* writes back the ET and MPH the first click left.
C9_FixedPoint ==
    [][HpAfterEt => (et_tf' = et_tf /\ mph_tf' = mph_tf)]_vars

\* the field shows the number exactly, and every number the second click
\* displays has one nearest decimal
HpShownExactly == SameNumber(float(hp_tf), last.hp)

NoTie(c) ==
    /\ Cardinality(FormatFixed(c.et_qtr, 3)) = 1
    /\ Cardinality(FormatFixed(c.et_1_8, 3)) = 1
    /\ Cardinality(FormatFixed(c.mph_qtr, 1)) = 1
    /\ Cardinality(FormatFixed(c.mph_1_8, 1)) = 1

\* C9 (amended): ... writes back the ET and MPH the first click left, provided
\* the HP field shows the first click's hp exactly (hp has no more than one
\* decimal) and no displayed value is exactly half way between two decimals.
C9_FixedPointWhenHpExact ==
    [][(HpAfterEt /\ HpShownExactly /\ NoTie(last))
       => (et_tf' = et_tf /\ mph_tf' = mph_tf)]_vars

\* 7.689 s at 1/8 mile and 3200 lb give hp = 400 exactly; Compute from HP
\* then found the same ET and MPH
C9_Witness ==
    /\ clicks = 2
    /\ last.handler = "hp" /\ last.outcome = "result" /\ ~last.quarter
    /\ result_text.heading = "From HP:"
    /\ hp_tf = Decimal(FALSE, 4000, 1)
    /\ et_tf = Decimal(FALSE, 7689, 3)
    /\ SameNumber(last.et_1_8, FloatOfInt(7689, 3))

\* C10: no click changes the weight field or the selector; Compute from HP
\* leaves the HP field alone; a successful Compute from ET or Compute from MPH
\* writes the ET, MPH and HP fields from its own results.
C10_Frame ==
    [][clicks' = clicks + 1
       => /\ weight_tf' = weight_tf
          /\ distance_dd' = distance_dd
          /\ last'.handler = "hp" => hp_tf' = hp_tf
          /\ (last'.handler \in {"et", "mph"} /\ last'.outcome = "result")
             => /\ et_tf' \in FormatFixed(ForDistance(last'.et_qtr, Literal(66, 2)), 3)
                /\ mph_tf' \in FormatFixed(ForDistance(last'.mph_qtr, Literal(79, 2)), 1)
                /\ hp_tf' \in FormatFixed(last'.hp, 1)]_vars

\* Compute from MPH overwrote an HP the user had typed, and a following
\* Compute from HP kept it
C10_Witness ==
    /\ clicks = 2
    /\ last.handler = "hp" /\ last.outcome = "result"
    /\ weight_tf = Decimal(FALSE, 3200, 0)
    /\ hp_tf = Decimal(FALSE, 4000, 1)
    /\ result_text.hp = hp_tf


====
